---- MODULE Spec2Model ----
(***************************************************************************)
(* Model of telethon/sessions/abstract.py: the abstract Session base       *)
(* class.  The state is a heap of Session objects.  The shared base owns   *)
(* two attributes per object, _report_errors and _flood_sleep_threshold;   *)
(* everything else (DC, auth key, update states, durable record,           *)
(* lifecycle) belongs to a backend, whose operations are modelled from     *)
(* the specification and kept apart from the shared-base bodies.           *)
(***************************************************************************)
EXTENDS Integers, Sequences, FiniteSets, TLC

\* ------------------------------------------------------------------ bounds

\* Number of Session objects the heap can hold.
MaxObjects == 3

\* Number of sessions in the specifications of the shared layer.
MaxSessions == 2

\* Number of sessions in the backend lifecycle specification.
MaxBackendSessions == 1

\* ------------------------------------------------------- program constants

\* self._flood_sleep_threshold = 60
DefaultFloodSleepThreshold == 60

\* Python's None as an object reference (to_instance=None).
None == 0

\* ------------------------------------------------------------- input sets

Pool == 1..MaxObjects

\* Concrete subclasses of Session.  "Session" stands for a subclass with
\* Python's default truthiness; "SizedSession" for a subclass that defines
\* __len__ or __bool__ so that bool(instance) is False.
Classes == {"Session", "SizedSession"}

FalsyClasses == {"SizedSession"}

\* Values written to report_errors and flood_sleep_threshold.
ReportValues == BOOLEAN

FloodValues == {DefaultFloodSleepThreshold, 0}

\* ------------------------------------------------------------------ state

VARIABLES
    alive,                      \* the objects constructed so far
    cls,                        \* type(obj) of each object
    _report_errors,             \* obj._report_errors
    _flood_sleep_threshold,     \* obj._flood_sleep_threshold
    dc,                         \* backend: current DCInfo of each object
    auth,                       \* backend: AuthSecret of each object
    update_state,               \* backend: stream id -> cursor of each object
    durable,                    \* backend: the persisted record, <<>> if none
    phase,                      \* backend: "open", "closed" or "deleted"
    ever_set,                   \* history: streams set_update_state was called for
    closed,                     \* history: sessions whose close() has returned
    written,                    \* history: the value last assigned to each flag
    pair,                       \* history: <<source, result>> of the last clone
    last                        \* the most recent call: operation, receiver,
                                \* argument, outcome and returned value

shared == <<alive, cls, _report_errors, _flood_sleep_threshold>>

backend == <<dc, auth, update_state, durable, phase>>

history == <<ever_set, closed, written, pair>>

vars == <<shared, backend, history, last>>

\* The record of a call.  body names the class whose method body ran; outcome
\* is "return" or the name of the exception.
Call(op, self, arg, outcome, value) ==
    [body |-> "Session", op |-> op, self |-> self, arg |-> arg,
     outcome |-> outcome, value |-> value]

Returned(op, self, arg, value) == Call(op, self, arg, "return", value)

Raised(op, self, arg, exc) == Call(op, self, arg, exc, None)

\* The lowest free slot of the heap (allocation order is immaterial).
Fresh == CHOOSE o \in Pool \ alive : \A p \in Pool \ alive : o <= p

\* bool(obj): None is falsy; an object is truthy unless its class says no.
Truthy(obj) == obj # None /\ cls[obj] \notin FalsyClasses

\* Backend values: "no DC configured", "no auth key", "no cursor" are None.
DCInfos == {[dc_id |-> 2, address |-> "149.154.167.51", port |-> 443]}

NoDC == [dc_id |-> None, address |-> "", port |-> None]

AuthKeys == {256}

Streams == {0, 1}

Cursors == {500}

NoStates == [s \in Streams |-> None]

\* What save makes durable: DCInfo, AuthSecret and cursors together; the
\* flags are process-local and not part of the record.
Record(self) ==
    [dc |-> dc[self], auth |-> auth[self], update_state |-> update_state[self]]

Flags(re, fst) == [report_errors |-> re, flood_sleep_threshold |-> fst]

Init ==
    /\ alive = {}
    /\ cls = [o \in Pool |-> "Session"]
    /\ _report_errors = [o \in Pool |-> TRUE]
    /\ _flood_sleep_threshold = [o \in Pool |-> DefaultFloodSleepThreshold]
    /\ dc = [o \in Pool |-> NoDC]
    /\ auth = [o \in Pool |-> None]
    /\ update_state = [o \in Pool |-> NoStates]
    /\ durable = [o \in Pool |-> <<>>]
    /\ phase = [o \in Pool |-> "open"]
    /\ ever_set = [o \in Pool |-> {}]
    /\ closed = {}
    /\ written = [o \in Pool |-> Flags(TRUE, DefaultFloodSleepThreshold)]
    /\ pair = <<None, None>>
    /\ last = Call("start", None, None, "return", None)

\* ------------------------------------------------------------ shared base

\* Session.__init__, run by the construction of an instance of class c.
__init__(c) ==
    /\ alive # Pool
    /\ c \in Classes
    /\ alive' = alive \cup {Fresh}
    /\ cls' = [cls EXCEPT ![Fresh] = c]
    /\ _report_errors' = [_report_errors EXCEPT ![Fresh] = TRUE]
    /\ _flood_sleep_threshold' =
           [_flood_sleep_threshold EXCEPT ![Fresh] = DefaultFloodSleepThreshold]
    /\ written' = [written EXCEPT ![Fresh] = Flags(TRUE, DefaultFloodSleepThreshold)]
    /\ last' = Returned("__init__", Fresh, None, Fresh)
    /\ UNCHANGED <<backend, ever_set, closed, pair>>

\* The report_errors property (getter).
report_errors(self) == _report_errors[self]

\* The flood_sleep_threshold property (getter).
flood_sleep_threshold(self) == _flood_sleep_threshold[self]

\* A call of the report_errors getter.
get_report_errors(self) ==
    /\ self \in alive
    /\ last' = Returned("report_errors", self, None, report_errors(self))
    /\ UNCHANGED <<shared, backend, history>>

\* A call of the flood_sleep_threshold getter.
get_flood_sleep_threshold(self) ==
    /\ self \in alive
    /\ last' = Returned("flood_sleep_threshold", self, None,
                        flood_sleep_threshold(self))
    /\ UNCHANGED <<shared, backend, history>>

\* Mutant: the setter assigns the other attribute.
set_report_errors_wrong_attribute(self, value) ==
    /\ self \in alive
    /\ _flood_sleep_threshold' = [_flood_sleep_threshold EXCEPT ![self] = value]
    /\ written' = [written EXCEPT ![self].report_errors = value]
    /\ last' = Returned("report_errors.setter", self, value, None)
    /\ UNCHANGED <<alive, cls, _report_errors, backend, ever_set, closed, pair>>

\* The report_errors setter: self._report_errors = value.
set_report_errors(self, value) ==
    /\ self \in alive
    /\ _report_errors' = [_report_errors EXCEPT ![self] = value]
    /\ written' = [written EXCEPT ![self].report_errors = value]
    /\ last' = Returned("report_errors.setter", self, value, None)
    /\ UNCHANGED <<alive, cls, _flood_sleep_threshold, backend, ever_set, closed, pair>>

\* Mutant: the threshold is kept on the class, so every session sees it.
set_flood_sleep_threshold_on_class(self, value) ==
    /\ self \in alive
    /\ _flood_sleep_threshold' = [o \in Pool |-> value]
    /\ written' = [written EXCEPT ![self].flood_sleep_threshold = value]
    /\ last' = Returned("flood_sleep_threshold.setter", self, value, None)
    /\ UNCHANGED <<alive, cls, _report_errors, backend, ever_set, closed, pair>>

\* The flood_sleep_threshold setter: self._flood_sleep_threshold = value.
set_flood_sleep_threshold(self, value) ==
    /\ self \in alive
    /\ _flood_sleep_threshold' = [_flood_sleep_threshold EXCEPT ![self] = value]
    /\ written' = [written EXCEPT ![self].flood_sleep_threshold = value]
    /\ last' = Returned("flood_sleep_threshold.setter", self, value, None)
    /\ UNCHANGED <<alive, cls, _report_errors, backend, ever_set, closed, pair>>

\* Mutant: clone copies report_errors and forgets the threshold.
clone_forgets_threshold(self, to_instance) ==
    /\ self \in alive
    /\ to_instance \in alive \cup {None}
    /\ Truthy(to_instance) \/ alive # Pool
    /\ LET cloned == IF Truthy(to_instance) THEN to_instance ELSE Fresh
       IN  /\ alive' = alive \cup {cloned}
           /\ cls' = IF Truthy(to_instance) THEN cls
                     ELSE [cls EXCEPT ![cloned] = cls[self]]
           /\ _report_errors' =
                  [_report_errors EXCEPT ![cloned] = report_errors(self)]
           /\ _flood_sleep_threshold' =
                  IF Truthy(to_instance) THEN _flood_sleep_threshold
                  ELSE [_flood_sleep_threshold EXCEPT
                           ![cloned] = DefaultFloodSleepThreshold]
           /\ written' = [written EXCEPT ![cloned] =
                  Flags(report_errors(self), _flood_sleep_threshold'[cloned])]
           /\ pair' = <<self, cloned>>
           /\ last' = Returned("clone", self, to_instance, cloned)
    /\ UNCHANGED <<backend, ever_set, closed>>

\* Session.clone:
\*     cloned = to_instance or self.__class__()
\*     cloned._report_errors = self.report_errors
\*     cloned._flood_sleep_threshold = self.flood_sleep_threshold
\*     return cloned
\* `or` tests the truth value of to_instance, so a falsy target is replaced
\* by a fresh instance exactly as None is.  self.__class__() runs __init__.
clone(self, to_instance) ==
    /\ self \in alive
    /\ to_instance \in alive \cup {None}
    /\ Truthy(to_instance) \/ alive # Pool
    /\ LET cloned == IF Truthy(to_instance) THEN to_instance ELSE Fresh
       IN  /\ alive' = alive \cup {cloned}
           /\ cls' = IF Truthy(to_instance) THEN cls
                     ELSE [cls EXCEPT ![cloned] = cls[self]]
           /\ _report_errors' =
                  [_report_errors EXCEPT ![cloned] = report_errors(self)]
           /\ _flood_sleep_threshold' =
                  [_flood_sleep_threshold EXCEPT
                      ![cloned] = flood_sleep_threshold(self)]
           /\ written' = [written EXCEPT ![cloned] =
                  Flags(report_errors(self), flood_sleep_threshold(self))]
           /\ pair' = <<self, cloned>>
           /\ last' = Returned("clone", self, to_instance, cloned)
    /\ UNCHANGED <<backend, ever_set, closed>>

\* Mutant: list_sessions enumerates every session constructed so far.
list_sessions_enumerates ==
    /\ last' = Returned("list_sessions", None, None,
                        [i \in 1..Cardinality(alive) |-> i])
    /\ UNCHANGED <<shared, backend, history>>

\* Session.list_sessions (a classmethod): return [].
list_sessions ==
    /\ last' = Returned("list_sessions", None, None, <<>>)
    /\ UNCHANGED <<shared, backend, history>>

\* The body shared by the abstract methods that end in
\* `raise NotImplementedError`: no attribute is read or written.
NotImplemented(op, self) ==
    /\ self \in alive
    /\ last' = Raised(op, self, None, "NotImplementedError")
    /\ UNCHANGED <<shared, backend, history>>

set_dc(self) == NotImplemented("set_dc", self)

server_address(self) == NotImplemented("server_address", self)

port(self) == NotImplemented("port", self)

auth_key(self) == NotImplemented("auth_key", self)

set_auth_key(self) == NotImplemented("auth_key.setter", self)

get_update_state(self) == NotImplemented("get_update_state", self)

set_update_state(self) == NotImplemented("set_update_state", self)

\* Mutant: close flushes the session's record before returning.
close_saves(self) ==
    /\ self \in alive
    /\ closed' = closed \cup {self}
    /\ durable' = [durable EXCEPT ![self] = <<Record(self)>>]
    /\ last' = Returned("close", self, None, None)
    /\ UNCHANGED <<shared, dc, auth, update_state, phase,
                   ever_set, written, pair>>

\* Session.close: the body holds a docstring and nothing else, so the call
\* returns None.
close(self) ==
    /\ self \in alive
    /\ closed' = closed \cup {self}
    /\ last' = Returned("close", self, None, None)
    /\ UNCHANGED <<shared, backend, ever_set, written, pair>>

\* Mutant: the body of save lacks its raise and returns None.
save_without_raise(self) ==
    /\ self \in alive
    /\ last' = Returned("save", self, None, None)
    /\ UNCHANGED <<shared, backend, history>>

save(self) == NotImplemented("save", self)

delete(self) == NotImplemented("delete", self)

process_entities(self) == NotImplemented("process_entities", self)

get_input_entity(self) == NotImplemented("get_input_entity", self)

cache_file(self) == NotImplemented("cache_file", self)

get_file(self) == NotImplemented("get_file", self)

\* ---------------------------------------------------------------- backend
\* A concrete backend's overrides of the required operations, after sections
\* 4.2, 4.5, 4.6 and 7 of the specification.  A session is open until close
\* or delete ends it; an operation attempted afterwards fails fast.

Backend(call) == [call EXCEPT !.body = "Backend"]

EndedError(self) ==
    IF phase[self] = "closed" THEN "SessionClosed" ELSE "SessionDeleted"

\* An operation attempted after lifecycle end.
FailFast(op, self) ==
    /\ phase[self] # "open"
    /\ last' = Backend(Raised(op, self, None, EndedError(self)))
    /\ UNCHANGED <<shared, backend, history>>

backend_set_dc(self, info) ==
    /\ self \in alive
    /\ \/ FailFast("set_dc", self)
       \/ /\ phase[self] = "open"
          /\ dc' = [dc EXCEPT ![self] = info]
          /\ last' = Backend(Returned("set_dc", self, info, None))
          /\ UNCHANGED <<shared, auth, update_state, durable, phase, history>>

backend_set_auth_key(self, value) ==
    /\ self \in alive
    /\ \/ FailFast("auth_key.setter", self)
       \/ /\ phase[self] = "open"
          /\ auth' = [auth EXCEPT ![self] = value]
          /\ last' = Backend(Returned("auth_key.setter", self, value, None))
          /\ UNCHANGED <<shared, dc, update_state, durable, phase, history>>

\* Mutant: a lookup of a stream with no cursor fails instead of returning None.
backend_get_update_state_raises(self, entity_id) ==
    /\ self \in alive
    /\ \/ FailFast("get_update_state", self)
       \/ /\ phase[self] = "open"
          /\ last' = Backend(
                 IF update_state[self][entity_id] = None
                 THEN Raised("get_update_state", self, entity_id, "KeyError")
                 ELSE Returned("get_update_state", self, entity_id,
                               update_state[self][entity_id]))
          /\ UNCHANGED <<shared, backend, history>>

backend_get_update_state(self, entity_id) ==
    /\ self \in alive
    /\ \/ FailFast("get_update_state", self)
       \/ /\ phase[self] = "open"
          /\ last' = Backend(Returned("get_update_state", self, entity_id,
                                      update_state[self][entity_id]))
          /\ UNCHANGED <<shared, backend, history>>

backend_set_update_state(self, entity_id, state) ==
    /\ self \in alive
    /\ \/ FailFast("set_update_state", self)
       \/ /\ phase[self] = "open"
          /\ update_state' = [update_state EXCEPT ![self][entity_id] = state]
          /\ ever_set' = [ever_set EXCEPT ![self] = @ \cup {entity_id}]
          /\ last' = Backend(Returned("set_update_state", self, entity_id, None))
          /\ UNCHANGED <<shared, dc, auth, durable, phase, closed, written, pair>>

backend_save(self) ==
    /\ self \in alive
    /\ \/ FailFast("save", self)
       \/ /\ phase[self] = "open"
          /\ durable' = [durable EXCEPT ![self] = <<Record(self)>>]
          /\ last' = Backend(Returned("save", self, None, None))
          /\ UNCHANGED <<shared, dc, auth, update_state, phase, history>>

backend_close(self) ==
    /\ self \in alive
    /\ \/ FailFast("close", self)
       \/ /\ phase[self] = "open"
          /\ phase' = [phase EXCEPT ![self] = "closed"]
          /\ closed' = closed \cup {self}
          /\ last' = Backend(Returned("close", self, None, None))
          /\ UNCHANGED <<shared, dc, auth, update_state, durable,
                         ever_set, written, pair>>

backend_delete(self) ==
    /\ self \in alive
    /\ \/ FailFast("delete", self)
       \/ /\ phase[self] = "open"
          /\ phase' = [phase EXCEPT ![self] = "deleted"]
          /\ durable' = [durable EXCEPT ![self] = <<>>]
          /\ last' = Backend(Returned("delete", self, None, None))
          /\ UNCHANGED <<shared, dc, auth, update_state, history>>

\* ---------------------------------------------------------- specifications

\* Construction of an instance of one of the classes cs, while fewer than n
\* objects exist.
Construct(n, cs) == Cardinality(alive) < n /\ \E c \in cs : __init__(c)

FlagReads ==
    \E self \in Pool : get_report_errors(self) \/ get_flood_sleep_threshold(self)

FlagWrites ==
    \E self \in Pool :
        \/ \E value \in ReportValues : set_report_errors(self, value)
        \/ \E value \in FloodValues : set_flood_sleep_threshold(self, value)

\* A clone call; one that constructs needs fewer than n objects to exist.
Clones(n) ==
    \E self \in Pool, to_instance \in Pool \cup {None} :
        /\ Truthy(to_instance) \/ Cardinality(alive) < n
        /\ clone(self, to_instance)

AbstractBodies ==
    \E self \in Pool :
        \/ set_dc(self)
        \/ server_address(self)
        \/ port(self)
        \/ auth_key(self)
        \/ set_auth_key(self)
        \/ get_update_state(self)
        \/ set_update_state(self)
        \/ close(self)
        \/ save(self)
        \/ delete(self)
        \/ process_entities(self)
        \/ get_input_entity(self)
        \/ cache_file(self)
        \/ get_file(self)

BackendDC ==
    \E self \in Pool :
        \/ \E info \in DCInfos : backend_set_dc(self, info)
        \/ \E value \in AuthKeys : backend_set_auth_key(self, value)

BackendStates ==
    \E self \in Pool, entity_id \in Streams :
        \/ backend_get_update_state(self, entity_id)
        \/ \E state \in Cursors : backend_set_update_state(self, entity_id, state)

BackendLifecycle ==
    \E self \in Pool : backend_save(self) \/ backend_close(self) \/ backend_delete(self)

\* The whole model.
Next ==
    \/ Construct(MaxObjects, Classes)
    \/ FlagReads
    \/ FlagWrites
    \/ Clones(MaxObjects)
    \/ list_sessions
    \/ AbstractBodies
    \/ BackendDC
    \/ BackendStates
    \/ BackendLifecycle

Spec == Init /\ [][Next]_vars

\* The shared layer alone: construction, flags, clone, list_sessions.
NextFlags ==
    \/ Construct(MaxSessions, Classes)
    \/ FlagReads
    \/ FlagWrites
    \/ Clones(MaxSessions)
    \/ list_sessions

SpecFlags == Init /\ [][NextFlags]_vars

\* Clone between sessions of one class whose backend state differs.
NextCopy ==
    \/ Construct(MaxSessions, {"Session"})
    \/ FlagWrites
    \/ BackendDC
    \/ Clones(MaxSessions)

SpecCopy == Init /\ [][NextCopy]_vars

\* Clone over sessions of every class whose backend state differs.
NextClone ==
    \/ Construct(MaxObjects, Classes)
    \/ (\E self \in Pool, value \in ReportValues : set_report_errors(self, value))
    \/ BackendDC
    \/ Clones(MaxObjects)

SpecClone == Init /\ [][NextClone]_vars

\* The shared-base bodies of the required operations, which take no notice
\* of the receiver's class.
NextAbstract ==
    \/ Construct(MaxSessions, {"Session"})
    \/ FlagReads
    \/ FlagWrites
    \/ AbstractBodies

SpecAbstract == Init /\ [][NextAbstract]_vars

\* A backend's lifecycle, with the shared layer's reads beside it.
NextBackend ==
    \/ Construct(MaxBackendSessions, {"Session"})
    \/ Clones(MaxBackendSessions)
    \/ FlagReads
    \/ list_sessions
    \/ BackendStates
    \/ BackendLifecycle

SpecBackend == Init /\ [][NextBackend]_vars

\* list_sessions among sessions that are constructed, cloned, saved, deleted.
NextList ==
    \/ Construct(MaxSessions, Classes)
    \/ Clones(MaxSessions)
    \/ (\E self \in Pool : backend_save(self) \/ backend_delete(self))
    \/ list_sessions

SpecList == Init /\ [][NextList]_vars

\* ------------------------------------------------------------------ claims

FlagsOf(o) == Flags(_report_errors[o], _flood_sleep_threshold[o])

FlagsAfter(o) == Flags(_report_errors'[o], _flood_sleep_threshold'[o])

SetterOps == {"report_errors.setter", "flood_sleep_threshold.setter"}

RequiredOps ==
    {"set_dc", "server_address", "port", "auth_key", "auth_key.setter",
     "get_update_state", "set_update_state", "close", "save", "delete",
     "process_entities", "get_input_entity", "cache_file", "get_file"}

\* C1 (as claimed): right after clone, the returned session's DCInfo,
\* auth key, report_errors and flood_sleep_threshold equal the source's.
C1_CloneCopiesEverything ==
    last.op = "clone" =>
        /\ dc[last.value] = dc[last.self]
        /\ auth[last.value] = auth[last.self]
        /\ FlagsOf(last.value) = FlagsOf(last.self)

\* C1 (amended): right after clone, the returned session's report_errors and
\* flood_sleep_threshold equal the source's.
C1_CloneCopiesFlags ==
    last.op = "clone" => FlagsOf(last.value) = FlagsOf(last.self)

C1_Witness ==
    /\ last.op = "clone"
    /\ last.value # last.self
    /\ FlagsOf(last.self) = Flags(FALSE, 0)
    /\ dc[last.self] \in DCInfos
    /\ auth[last.self] \in AuthKeys

\* C2, state part: a new session has report_errors = TRUE and
\* flood_sleep_threshold = 60; each flag of each session holds the value
\* most recently assigned to it, and each getter returns that value.
C2_Values ==
    /\ \A o \in alive : FlagsOf(o) = written[o]
    /\ last.op = "__init__" =>
           FlagsOf(last.value) = Flags(TRUE, DefaultFloodSleepThreshold)
    /\ last.op = "report_errors" =>
           last.value = written[last.self].report_errors
    /\ last.op = "flood_sleep_threshold" =>
           last.value = written[last.self].flood_sleep_threshold

\* C2, step part: a call of one flag's setter leaves the other flag of that
\* session as it was.
C2_Step ==
    /\ last'.op = "report_errors.setter" =>
           _flood_sleep_threshold'[last'.self] = _flood_sleep_threshold[last'.self]
    /\ last'.op = "flood_sleep_threshold.setter" =>
           _report_errors'[last'.self] = _report_errors[last'.self]

\* C2: defaults at construction, getters return the value last written to
\* that flag on that session, and writing one flag never changes the other.
C2_FlagsHoldLastWrite == []C2_Values /\ [][C2_Step]_vars

C2_Witness ==
    /\ last.op = "report_errors"
    /\ last.value = FALSE
    /\ pair[2] = last.self
    /\ _flood_sleep_threshold[last.self] # DefaultFloodSleepThreshold

\* C3 (as claimed): clone returns the target whenever one is provided, and
\* a new instance of the source's class, distinct from the source, when
\* none is provided.
C3_CloneReturnsTarget ==
    last.op = "clone" =>
        /\ last.arg # None => last.value = last.arg
        /\ last.arg = None =>
               last.value # last.self /\ cls[last.value] = cls[last.self]

\* C4: a clone is independent of its source: a flag write on one session
\* changes the flags of no other session, so writes on the source leave the
\* clone's flags alone and writes on the clone leave the source's alone.
C4_CloneIndependent ==
    [][last'.op \in SetterOps =>
          \A o \in Pool \ {last'.self} : FlagsAfter(o) = FlagsOf(o)]_vars

C4_Witness ==
    /\ last.op \in SetterOps
    /\ last.self = pair[1]
    /\ pair[2] # pair[1]
    /\ FlagsOf(pair[2]) # FlagsOf(pair[1])

\* C5: list_sessions returns the empty sequence in every state, whatever was
\* constructed, cloned, saved or deleted before, and changes no session.
C5_ListSessionsEmpty ==
    [][last'.op = "list_sessions" =>
          /\ last'.outcome = "return"
          /\ last'.value = <<>>
          /\ <<shared, backend>>' = <<shared, backend>>]_vars

C5_Witness ==
    /\ last.op = "list_sessions"
    /\ pair[1] # None
    /\ \E o \in alive : phase[o] = "deleted"
    /\ \E o \in alive : durable[o] # <<>>

AfterClose ==
    /\ last.self \in closed
    /\ last.op \notin {"__init__", "close"}

\* C7 (as claimed): close does not save, and after close every operation on
\* the session fails with SessionClosed.
C7_EveryOperationFails ==
    /\ [][last'.op = "close" => durable' = durable]_vars
    /\ [](AfterClose => last.outcome = "SessionClosed")

\* C7 (amended): the shared base's close saves nothing and changes no
\* session; after it no operation of the shared base fails with
\* SessionClosed: the flag accessors return as before, and the required
\* operations fail with NotImplementedError as before.
C7_CloseChangesNothing ==
    /\ [][last'.op = "close" => <<shared, backend>>' = <<shared, backend>>]_vars
    /\ [](last.self \in closed =>
            IF last.op \in RequiredOps \ {"close"}
            THEN last.outcome = "NotImplementedError"
            ELSE last.outcome = "return")

C7_Witness ==
    /\ last.op = "report_errors"
    /\ last.self \in closed
    /\ last.outcome = "return"
    /\ last.value = FALSE

\* C8: on an open session get_update_state returns None, as a value, for
\* every stream id set_update_state was never called for.
C8_UnknownStateIsNone ==
    /\ last.op = "get_update_state"
    /\ last.body = "Backend"
    /\ phase[last.self] = "open"
    /\ last.arg \notin ever_set[last.self]
    => last.outcome = "return" /\ last.value = None

C8_Witness ==
    /\ last.op = "get_update_state"
    /\ last.arg = 0
    /\ ever_set[last.self] = {1}
    /\ last.outcome = "return"
    /\ last.value = None

\* C9 (as claimed): clone(target) makes the target's two flags equal the
\* source's, leaves the rest of the target's state as it was, and leaves
\* the source unchanged.
C9_CloneWritesTargetFlagsOnly ==
    [][last'.op = "clone" /\ last'.arg # None =>
          /\ FlagsAfter(last'.arg) = FlagsOf(last'.self)
          /\ <<dc, auth, update_state, durable, phase>>' =
                 <<dc, auth, update_state, durable, phase>>
          /\ cls'[last'.arg] = cls[last'.arg]
          /\ FlagsAfter(last'.self) = FlagsOf(last'.self)]_vars

\* C10 (as claimed): every shared-base body of a required operation fails
\* with NotImplementedError.
C10_EveryBodyRaises ==
    last.body = "Session" /\ last.op \in RequiredOps =>
        last.outcome = "NotImplementedError"

\* C10 (amended): every shared-base body of a required operation except
\* close fails with NotImplementedError; close returns None; none of them
\* changes a flag of any session.
C10_BodiesRaiseExceptClose ==
    /\ [](last.body = "Session" /\ last.op \in RequiredOps =>
            IF last.op = "close"
            THEN last.outcome = "return" /\ last.value = None
            ELSE last.outcome = "NotImplementedError")
    /\ [][last'.op \in RequiredOps =>
            \A o \in Pool : FlagsAfter(o) = FlagsOf(o)]_vars

C10_Witness ==
    /\ last.op = "save"
    /\ last.outcome = "NotImplementedError"
    /\ FlagsOf(last.self) = Flags(FALSE, 0)

====
